---- MODULE Spec2Model ----
(***************************************************************************)
(* Model of the MACD trading bot: MACDStrategy (src/src/utils/orders.py),  *)
(* the exchange handler ByBitHandler (src/src/handlers/bybit_handler.py),  *)
(* the JSON state file (src/src/utils/json_state.py) and the driver run()  *)
(* (src/src/main.py).                                                      *)
(*                                                                         *)
(* Numbers.  Decimal and float values are fixed-point integers counting    *)
(* thousandths: Dec(100) is 100.0 and 500 is 0.5.  Every value the model   *)
(* draws is chosen so that the products and quotients the code computes    *)
(* are exact at this scale (prices are multiples of 1.0, percentages are   *)
(* whole), so comparisons come out as they do in the code.  A quotient of  *)
(* two Decimals is kept as the pair <<numerator, denominator>> until the   *)
(* code quantizes it.                                                      *)
(*                                                                         *)
(* The exchange is the environment: every response of a session call is an *)
(* input drawn afresh from a small set at each call.                       *)
(***************************************************************************)
EXTENDS Integers, Sequences, FiniteSets, TLC

VARIABLES
    pc,             \* position of run(): "constructed", "synced", "loop", "stopped"
    state,          \* MACDStrategy.state, the dict loaded from the state file
    last_signal,    \* MACDStrategy.last_signal
    position_open,  \* MACDStrategy.position_open
    disk,           \* content of state.json
    cycle,          \* what the last call of process_macd did (its locals and calls)
    placed,         \* what the last call of place_market_order did (SpecOrders)
    sync_call       \* what the last call of sync_position met (SpecSync)

vars == <<pc, state, last_signal, position_open, disk, cycle, placed, sync_call>>

-----------------------------------------------------------------------------
(* Bounds and configuration *)

\* Number of price ticks above the lowest candle close the model draws.
MaxTicks == 4

Dec(n) == n * 1000

\* settings.py: DEPOSIT_SETTINGS
DEPOSIT == 100
USE_TOTAL_BALANCE == FALSE

\* RISK_MANAGEMENT_SETTINGS is imported by orders.py from src.settings but is
\* not defined in the settings.py under src/; the percentages are those of the
\* specification's scenarios.
TP_PERCENTAGE == 5
SL_PERCENTAGE == 2
TRAILING_STOP_PERCENTAGE == 2

SIGNAL_WAIT_DOWNWARD_CROSS == "Wait for downward cross"
SIGNAL_WAIT_UPWARD_CROSS == "Wait for upward cross"
SIGNAL_POSITION_OPEN == "Position open"
\* Python's None (also: key absent, for the .get(key, None) reads)
None == "None"

\* Closing prices of the latest closed candle: 96, 97, ... (close_prices[-1])
ClosePrices == {Dec(96 + i) : i \in 0..MaxTicks}
\* <<macd[-1], macd_signal_line[-1]>> of calculate_macd, in hundredths: below,
\* on and above the signal line
MacdPairs == {<<120, 150>>, <<120, 120>>, <<150, 120>>}

-----------------------------------------------------------------------------
(* Exchange responses (inputs) *)

\* lotSizeFilter.basePrecision as the exchange reports it, a string
BasePrecisionStrs ==
    { <<"1">>, <<"0", ".", "1">>, <<"0", ".", "0", "1">>, <<"0", ".", "0", "0", "5">> }
MinOrderQtys == {10, 100, 150}     \* minOrderQty 0.01, 0.1, 0.15
MinOrderAmts == {500, Dec(15)}     \* minOrderAmt 0.5, 15

\* get_instruments_info: kind "ok", or "retCode" (retCode != 0), "missingField"
\* (a key of the payload is absent), "emptyList" (result.list is empty, the
\* symbol is unknown)
PrecisionResponses ==
    [kind : {"ok"}, basePrecision : BasePrecisionStrs,
     minOrderQty : MinOrderQtys, minOrderAmt : MinOrderAmts]
    \cup
    [kind : {"retCode", "missingField", "emptyList"}, basePrecision : {<<>>},
     minOrderQty : {0}, minOrderAmt : {0}]

\* get_wallet_balance for one coin: walletBalance, or retCode != 0
UsdtBalanceResponses ==
    [kind : {"ok"}, walletBalance : {0, Dec(10), Dec(50), Dec(200)}]
    \cup [kind : {"retCode"}, walletBalance : {0}]
BaseBalanceResponses ==
    [kind : {"ok"}, walletBalance : {0, 50, 150, 1500, 1550, 1553}]
    \cup [kind : {"retCode"}, walletBalance : {0}]

\* get_tickers: lastPrice 0.5 or 100, or retCode != 0
TickerResponses ==
    [kind : {"ok"}, lastPrice : {500, Dec(100)}]
    \cup [kind : {"retCode"}, lastPrice : {0}]

\* The "result" object of a successful place_order: the fields process_macd
\* reads from it, present or not.
OrderResults ==
    { [has_entry_price |-> FALSE, entry_price |-> 0,
       has_quantity |-> FALSE, quantity |-> 0],
      [has_entry_price |-> TRUE, entry_price |-> Dec(95),
       has_quantity |-> TRUE, quantity |-> 1000] }
NoResult == [has_entry_price |-> FALSE, entry_price |-> 0,
             has_quantity |-> FALSE, quantity |-> 0]

\* place_order: retCode 0 with a result, retCode != 0, or the session raising
\* (a request error of the client library, which is no ValueError)
OrderResponses ==
    [kind : {"ok"}, result : OrderResults]
    \cup [kind : {"retCode", "raise"}, result : {NoResult}]

-----------------------------------------------------------------------------
(* Decimal helpers *)

Min(a, b) == IF a <= b THEN a ELSE b
Max(a, b) == IF a >= b THEN a ELSE b

RECURSIVE Pow10(_)
Pow10(n) == IF n = 0 THEN 1 ELSE 10 * Pow10(n - 1)

\* Index of the last "." of a string, 0 when it has none
RECURSIVE LastDot(_, _)
LastDot(s, i) == IF i = 0 THEN 0 ELSE IF s[i] = "." THEN i ELSE LastDot(s, i - 1)

\* len(str(basePrecision).split('.')[-1])
FracDigits(s) == Len(s) - LastDot(s, Len(s))

\* q < m for the Decimal quotient q = num/den (den > 0, in the units of num)
\* and the Decimal m in thousandths
QLess(num, den, m) == num * 1000 < m * den

\* QuantizeDown rounding up instead: the quantity may exceed the exact quotient
QuantizeDown_round_up(num, den, digits) ==
    ((num * Pow10(digits) + den - 1) \div den) * (1000 \div Pow10(digits))

\* (num/den).quantize(Decimal("1e-digits"), rounding=ROUND_DOWN), in thousandths
QuantizeDown(num, den, digits) ==
    ((num * Pow10(digits)) \div den) * (1000 \div Pow10(digits))

-----------------------------------------------------------------------------
(* ByBitHandler *)

\* get_precision: exc is the exception that leaves the method ("none" when it
\* returns); base_precision is the exponent n of Decimal("1e-n").
get_precision(resp) ==
    IF resp.kind = "retCode" THEN
        [exc |-> "ValueError", base_precision |-> 0, min_order_qty |-> 0, min_order_amt |-> 0]
    ELSE IF resp.kind = "emptyList" THEN
        [exc |-> "IndexError", base_precision |-> 0, min_order_qty |-> 0, min_order_amt |-> 0]
    ELSE IF resp.kind = "missingField" THEN
        [exc |-> "KeyError", base_precision |-> 0, min_order_qty |-> 0, min_order_amt |-> 0]
    ELSE
        [exc |-> "none",
         base_precision |-> FracDigits(resp.basePrecision),
         min_order_qty |-> resp.minOrderQty,
         min_order_amt |-> resp.minOrderAmt]

\* get_asset_balance: the balance truncated to 1e-8 (finer than the model's
\* thousandths, so the drawn balances are unchanged by it), 0.0 for an absent
\* coin; ValueError when retCode != 0.
get_asset_balance(resp) ==
    IF resp.kind = "retCode" THEN [exc |-> "ValueError", balance |-> 0]
    ELSE [exc |-> "none", balance |-> QuantizeDown(resp.walletBalance, 1000, 3)]

\* get_asset_price
get_asset_price(resp) ==
    IF resp.kind = "retCode" THEN [exc |-> "ValueError", price |-> 0]
    ELSE [exc |-> "none", price |-> resp.lastPrice]

\* What place_market_order hands back: ret is "None" or "result"; exc is the
\* exception that escapes it; submitted says session.place_order was called;
\* num/den is qty before the minimum check, minimum the threshold it was
\* compared with, qty the quantized quantity sent.
OrderOutcome(ret, result, exc, submitted, num, den, minimum, digits, qty, precision_failed) ==
    [ret |-> ret, result |-> result, exc |-> exc, submitted |-> submitted,
     num |-> num, den |-> den, minimum |-> minimum, digits |-> digits, qty |-> qty,
     precision_failed |-> precision_failed]

NotCalled == OrderOutcome("NotCalled", NoResult, "none", FALSE, 0, 1, 0, 0, 0, FALSE)

\* The quantity place_market_order computes before the minimum check, as the
\* pair <<numerator, denominator>>; exc when a query raised.
order_qty(side, env) ==
    IF side = "Buy" THEN
        LET b == get_asset_balance(env.usdt)
            t == get_asset_price(env.ticker)
            want == IF USE_TOTAL_BALANCE THEN b.balance ELSE Dec(DEPOSIT)
        IN  IF b.exc # "none" THEN [exc |-> b.exc, num |-> 0, den |-> 1]
            ELSE IF t.exc # "none" THEN [exc |-> t.exc, num |-> 0, den |-> 1]
            ELSE [exc |-> "none", num |-> Min(want, b.balance), den |-> t.price]
    ELSE
        LET b == get_asset_balance(env.base)
        IN  IF b.exc # "none" THEN [exc |-> b.exc, num |-> 0, den |-> 1]
            ELSE [exc |-> "none", num |-> b.balance, den |-> 1000]

\* The threshold of the minimum check
order_minimum(side, p) == IF side = "Sell" THEN p.min_order_qty ELSE p.min_order_amt

place_market_order(side, env) ==
    LET p == get_precision(env.prec) IN
    IF p.exc = "ValueError" THEN
        OrderOutcome("None", NoResult, "none", FALSE, 0, 1, 0, 0, 0, TRUE)
    ELSE IF p.exc # "none" THEN
        OrderOutcome("None", NoResult, p.exc, FALSE, 0, 1, 0, 0, 0, TRUE)
    ELSE
    LET q == order_qty(side, env)
        m == order_minimum(side, p)
        d == p.base_precision
    IN
    IF q.exc # "none" THEN
        OrderOutcome("None", NoResult, "none", FALSE, 0, 1, m, d, 0, FALSE)
    ELSE IF QLess(q.num, q.den, m) THEN
        OrderOutcome("None", NoResult, "none", FALSE, q.num, q.den, m, d, 0, FALSE)
    ELSE
    LET qty == QuantizeDown(q.num, q.den, d) IN
    IF qty <= 0 THEN
        OrderOutcome("None", NoResult, "none", FALSE, q.num, q.den, m, d, qty, FALSE)
    ELSE IF env.order.kind = "raise" THEN
        OrderOutcome("None", NoResult, "RequestError", TRUE, q.num, q.den, m, d, qty, FALSE)
    ELSE IF env.order.kind = "retCode" THEN
        OrderOutcome("None", NoResult, "none", TRUE, q.num, q.den, m, d, qty, FALSE)
    ELSE
        OrderOutcome("result", env.order.result, "none", TRUE, q.num, q.den, m, d, qty, FALSE)

-----------------------------------------------------------------------------
(* json_state *)

\* The default state load_state returns when state.json is missing or unreadable
DefaultState ==
    [position_open |-> FALSE, side |-> None, quantity |-> 0, entry_price |-> 0,
     tp_price |-> 0, sl_price |-> 0, ts_price |-> 0, last_signal |-> None]

\* load_state: json.loads of the file
load_state(file) == file

\* save_state: json.dumps of the whole dict, every key it holds
save_state(st) == st

\* State files the operator may start the bot with: no file, or a flat state
\* that carries a "last_signal" key (the key __init__ reads).
InitialFiles ==
    { [DefaultState EXCEPT !.last_signal = s] :
        s \in {None, SIGNAL_WAIT_DOWNWARD_CROSS, SIGNAL_WAIT_UPWARD_CROSS,
               SIGNAL_POSITION_OPEN} }

-----------------------------------------------------------------------------
(* MACDStrategy *)

\* _reset_state leaving the levels of the closed position in the dict
reset_state_keeps_levels(st) ==
    [st EXCEPT !.position_open = FALSE, !.side = None, !.quantity = 0,
               !.entry_price = 0]

\* _reset_state: the dict after the update (position_open of the object is set
\* to False by the caller of this operator)
reset_state(st) ==
    [st EXCEPT !.position_open = FALSE, !.side = None, !.quantity = 0,
               !.entry_price = 0, !.tp_price = 0, !.sl_price = 0, !.ts_price = 0]

\* should_buy armed by either waiting state
should_buy_any_wait(ls, macd, macd_signal_line) ==
    ls \in {SIGNAL_WAIT_UPWARD_CROSS, SIGNAL_WAIT_DOWNWARD_CROSS} /\ macd > macd_signal_line

\* should_buy armed again once a position has been opened
should_buy_after_open(ls, macd, macd_signal_line) ==
    ls \in {SIGNAL_WAIT_UPWARD_CROSS, SIGNAL_POSITION_OPEN} /\ macd > macd_signal_line

should_buy(ls, macd, macd_signal_line) ==
    ls = SIGNAL_WAIT_UPWARD_CROSS /\ macd > macd_signal_line

should_sell(po, macd, macd_signal_line) ==
    po /\ macd < macd_signal_line

\* tp_level on the wrong side of the entry price
tp_level_below(entry_price) == (entry_price * (100 - TP_PERCENTAGE)) \div 100

\* entry_price * (1 + TP_PERCENTAGE / 100) and the two other levels
tp_level(entry_price) == (entry_price * (100 + TP_PERCENTAGE)) \div 100
sl_level(entry_price) == (entry_price * (100 - SL_PERCENTAGE)) \div 100
ts_level(current_price) == (current_price * (100 - TRAILING_STOP_PERCENTAGE)) \div 100

\* sync_position with a strict comparison: a balance equal to minOrderQty is
\* not adopted
sync_position_strict(st, balResp, precResp) ==
    LET b == get_asset_balance(balResp)
        p == get_precision(precResp)
    IN  IF b.exc # "none" \/ p.exc # "none" THEN
            [state |-> reset_state(st), position_open |-> FALSE]
        ELSE IF b.balance > p.min_order_qty THEN
            [state |-> [st EXCEPT !.position_open = TRUE, !.side = "Buy",
                                  !.quantity = b.balance,
                                  !.entry_price = st.entry_price],
             position_open |-> TRUE]
        ELSE
            [state |-> reset_state(st), position_open |-> FALSE]

\* sync_position: [state, position_open] after it, for the responses of the
\* balance and precision queries
sync_position(st, balResp, precResp) ==
    LET b == get_asset_balance(balResp)
        p == get_precision(precResp)
    IN  IF b.exc # "none" \/ p.exc # "none" THEN
            [state |-> reset_state(st), position_open |-> FALSE]
        ELSE IF b.balance >= p.min_order_qty THEN
            [state |-> [st EXCEPT !.position_open = TRUE, !.side = "Buy",
                                  !.quantity = b.balance,
                                  !.entry_price = st.entry_price],
             position_open |-> TRUE]
        ELSE
            [state |-> reset_state(st), position_open |-> FALSE]

\* Lines 125-150 of process_macd: the entry.  buy is what market_order("Buy")
\* handed back (NotCalled when should_buy was false); raised says an
\* exception left process_macd here; steps lists, in the order of execution,
\* the signal test, the order calls and the risk evaluation of the cycle.
entry_step(st, ls, po, dk, macd, macd_signal_line, current_price, env) ==
    IF ~should_buy(ls, macd, macd_signal_line) THEN
        [state |-> st, last_signal |-> ls, position_open |-> po, disk |-> dk,
         buy |-> NotCalled, raised |-> FALSE, steps |-> <<"should_buy">>]
    ELSE
    LET r == place_market_order("Buy", env) IN
    IF r.exc # "none" THEN
        [state |-> st, last_signal |-> ls, position_open |-> po, disk |-> dk,
         buy |-> r, raised |-> TRUE, steps |-> <<"should_buy", "Buy">>]
    ELSE IF r.ret = "None" THEN
        [state |-> st, last_signal |-> ls, position_open |-> po, disk |-> dk,
         buy |-> r, raised |-> FALSE, steps |-> <<"should_buy", "Buy">>]
    ELSE
    LET entry_price == IF r.result.has_entry_price THEN r.result.entry_price
                       ELSE current_price
        new == [st EXCEPT !.position_open = TRUE, !.side = "Buy",
                          !.quantity = IF r.result.has_quantity
                                       THEN r.result.quantity ELSE 0,
                          !.entry_price = entry_price,
                          !.tp_price = tp_level(entry_price),
                          !.sl_price = sl_level(entry_price),
                          !.ts_price = sl_level(entry_price)]
    IN  [state |-> new, last_signal |-> SIGNAL_POSITION_OPEN, position_open |-> TRUE,
         disk |-> save_state(new), buy |-> r, raised |-> FALSE,
         steps |-> <<"should_buy", "Buy">>]

\* The four comparisons of lines 170, 176, 182 and 189, on the levels read at
\* lines 152-155
tp_hit(current_price, tp_price) == current_price >= tp_price
sl_hit(current_price, sl_price) == current_price <= sl_price
ts_rises(current_price, ts_price) == current_price > ts_price
ts_hit(current_price, ts_price) == current_price <= ts_price

\* close_path with the trailing-stop check moved before the stop-loss check
close_path_ts_before_sl(po, current_price, tp_price, sl_price, ts_price) ==
    IF ~po THEN "none"
    ELSE IF tp_hit(current_price, tp_price) THEN "tp"
    ELSE IF ts_hit(current_price, ts_price) THEN "ts"
    ELSE IF sl_hit(current_price, sl_price) THEN "sl"
    ELSE "none"

\* Lines 169-193: the close branch process_macd enters ("none" when it enters
\* none); every branch returns, so the first that holds is the only one.
close_path(po, current_price, tp_price, sl_price, ts_price) ==
    IF ~po THEN "none"
    ELSE IF tp_hit(current_price, tp_price) THEN "tp"
    ELSE IF sl_hit(current_price, sl_price) THEN "sl"
    ELSE IF ts_hit(current_price, ts_price) THEN "ts"
    ELSE "none"

\* Lines 182-187: is the ratchet reached and taken
ratchets(po, current_price, tp_price, sl_price, ts_price) ==
    /\ po
    /\ ~tp_hit(current_price, tp_price)
    /\ ~sl_hit(current_price, sl_price)
    /\ ts_rises(current_price, ts_price)

\* Line 183: the trailing stop after the ratchet
new_ts_price(ts_price, current_price) == Max(ts_price, ts_level(current_price))

\* Lines 152-195 of process_macd after the entry step e: the risk checks.
\* tp_seen, sl_seen and ts_seen are the locals tp_price, sl_price, ts_price.
risk_step(e, current_price, env) ==
    LET st == e.state
        po == e.position_open
        path == close_path(po, current_price, st.tp_price, st.sl_price, st.ts_price)
        rat == ratchets(po, current_price, st.tp_price, st.sl_price, st.ts_price)
        st1 == IF rat THEN [st EXCEPT !.ts_price = new_ts_price(st.ts_price, current_price)]
               ELSE st
        dk1 == IF rat THEN save_state(st1) ELSE e.disk
        base == [state |-> st, last_signal |-> e.last_signal,
                 position_open |-> po, disk |-> e.disk,
                 buy |-> e.buy, sell |-> NotCalled, close_path |-> "none",
                 ratcheted |-> FALSE, open_at_risk |-> po, tp_seen |-> st.tp_price,
                 sl_seen |-> st.sl_price, ts_seen |-> st.ts_price,
                 raised |-> e.raised, steps |-> e.steps]
        evaluated == IF po THEN Append(e.steps, "risk") ELSE e.steps
    IN
    IF e.raised THEN base
    ELSE IF path = "none" THEN
        [base EXCEPT !.state = st1, !.disk = dk1, !.ratcheted = rat,
                     !.steps = evaluated]
    ELSE
        LET r == place_market_order("Sell", env) IN
        IF r.exc # "none" THEN
            [base EXCEPT !.state = st1, !.disk = dk1, !.ratcheted = rat,
                         !.close_path = path, !.sell = r, !.raised = TRUE,
                         !.steps = Append(evaluated, "Sell")]
        ELSE
            [base EXCEPT !.state = reset_state(st1), !.disk = dk1, !.ratcheted = rat,
                         !.close_path = path, !.sell = r, !.position_open = FALSE,
                         !.steps = Append(evaluated, "Sell")]

process_macd(st, ls, po, dk, macd, macd_signal_line, current_price, buyEnv, sellEnv) ==
    risk_step(entry_step(st, ls, po, dk, macd, macd_signal_line, current_price, buyEnv),
              current_price, sellEnv)

-----------------------------------------------------------------------------
(* The environment of one call of place_market_order *)

\* Placeholders for the responses of calls that are not made
NoBase == [kind |-> "unasked", walletBalance |-> 0]
NoUsdt == [kind |-> "unasked", walletBalance |-> 0]
NoTicker == [kind |-> "unasked", lastPrice |-> 1000]
NoPrec == [kind |-> "retCode", basePrecision |-> <<>>, minOrderQty |-> 0, minOrderAmt |-> 0]
NoOrder == [kind |-> "unasked", result |-> NoResult]
NoEnv == [prec |-> NoPrec, usdt |-> NoUsdt, base |-> NoBase, ticker |-> NoTicker,
          order |-> NoOrder]

\* Does place_market_order(side, env) get as far as session.place_order
reaches_order(side, env) ==
    place_market_order(side, [env EXCEPT !.order = [kind |-> "retCode", result |-> NoResult]]).submitted

\* The exchange answers exactly the calls that are made: the response of a
\* call place_market_order(side, env) does not make, and a field of the
\* precision payload the side does not read, is the placeholder.
answers_calls_made(side, env) ==
    LET failed == get_precision(env.prec).exc # "none" IN
    /\ (side = "Buy") =>
          /\ env.base = NoBase /\ env.prec.minOrderQty = 0
          /\ (env.usdt = NoUsdt) <=> failed
          /\ (env.ticker = NoTicker) <=> (failed \/ env.usdt.kind = "retCode")
    /\ (side = "Sell") =>
          /\ env.usdt = NoUsdt /\ env.ticker = NoTicker /\ env.prec.minOrderAmt = 0
          /\ (env.base = NoBase) <=> failed
    /\ (env.order = NoOrder) <=> ~reaches_order(side, env)

\* The environments of a Buy and of a Sell over given response sets.  The
\* result of a Sell is discarded by process_macd: one success shape.
BuyEnvsOver(precs, usdts, tickers) ==
    { env \in [prec : {[p EXCEPT !.minOrderQty = 0] : p \in precs},
               usdt : usdts \cup {NoUsdt}, base : {NoBase},
               ticker : tickers \cup {NoTicker},
               order : OrderResponses \cup {NoOrder}] :
        answers_calls_made("Buy", env) }
SellEnvsOver(precs, bases) ==
    { env \in [prec : {[p EXCEPT !.minOrderAmt = 0] : p \in precs},
               usdt : {NoUsdt}, base : bases \cup {NoBase},
               ticker : {NoTicker},
               order : {o \in OrderResponses : o.kind = "ok" => o.result = NoResult}
                       \cup {NoOrder}] :
        answers_calls_made("Sell", env) }

\* The responses the decision cycles meet: every failure, and values that take
\* place_market_order down each of its returns.  (SpecOrders below runs
\* place_market_order alone over all the values.)
CyclePrecisionResponses ==
    { p \in PrecisionResponses :
        p.kind = "ok" => (p.basePrecision = <<"0", ".", "1">> /\ p.minOrderQty = 100) }
CycleUsdtResponses == { b \in UsdtBalanceResponses : b.kind = "ok" => b.walletBalance = Dec(200) }
CycleTickerResponses == { t \in TickerResponses : t.kind = "ok" => t.lastPrice = Dec(100) }
CycleBaseResponses ==
    { b \in BaseBalanceResponses : b.kind = "ok" => b.walletBalance \in {50, 1500} }

BuyEnvs == BuyEnvsOver(CyclePrecisionResponses, CycleUsdtResponses, CycleTickerResponses)
SellEnvs == SellEnvsOver(CyclePrecisionResponses, CycleBaseResponses)

-----------------------------------------------------------------------------
(* run() *)

\* What a call of market_order came to, as process_macd sees it
Seen(o) == [ret |-> o.ret, exc |-> o.exc, submitted |-> o.submitted,
            precision_failed |-> o.precision_failed]

\* What process_macd did in the last cycle; NoCycle before the first one.
\* entry_price is the local of line 130 (0 when no Buy was confirmed).
NoCycle ==
    [ran |-> FALSE, open_at_start |-> FALSE, signal_at_start |-> None,
     macd |-> 0, macd_signal_line |-> 0, current_price |-> 0,
     buy |-> Seen(NotCalled), sell |-> Seen(NotCalled), close_path |-> "none",
     ratcheted |-> FALSE, open_at_risk |-> FALSE,
     tp_seen |-> 0, sl_seen |-> 0, ts_seen |-> 0,
     raised |-> FALSE, steps |-> <<>>, entry_price |-> 0]

NoPlaced == [side |-> None, env |-> NoEnv, outcome |-> NotCalled]

\* Before sync_position has been called
NoSync == [ran |-> FALSE, state_before |-> DefaultState, balance |-> NoBase, prec |-> NoPrec]

Init ==
    /\ disk \in InitialFiles
    /\ state = load_state(disk)
    /\ last_signal = load_state(disk).last_signal
    /\ position_open = load_state(disk).position_open
    /\ pc = "constructed"
    /\ cycle = NoCycle
    /\ placed = NoPlaced
    /\ sync_call = NoSync

\* run(), line 70: await strategy.sync_position()
SyncPosition ==
    /\ pc = "constructed"
    /\ \E balResp \in CycleBaseResponses, precResp \in CyclePrecisionResponses :
         LET r == sync_position(state, balResp, precResp) IN
         /\ state' = r.state
         /\ position_open' = r.position_open
    /\ pc' = "synced"
    /\ UNCHANGED <<last_signal, disk, cycle, placed, sync_call>>

\* One call of process_macd on the variables, with every exchange response
\* it meets drawn; okPc and failPc are where run() goes on when it returns
\* and when it raises.
Cycle(okPc, failPc) ==
    \E current_price \in ClosePrices, m \in MacdPairs :
    LET macd == m[1]
        macd_signal_line == m[2]
    IN
    \E buyEnv \in (IF should_buy(last_signal, macd, macd_signal_line)
                   THEN BuyEnvs ELSE {NoEnv}) :
      \E e \in {entry_step(state, last_signal, position_open, disk,
                          macd, macd_signal_line, current_price, buyEnv)} :
      \E sellEnv \in (IF ~e.raised /\ close_path(e.position_open, current_price,
                              e.state.tp_price, e.state.sl_price, e.state.ts_price) # "none"
                      THEN SellEnvs ELSE {NoEnv}) :
        \E r \in {risk_step(e, current_price, sellEnv)} :
        /\ state' = r.state
        /\ last_signal' = r.last_signal
        /\ position_open' = r.position_open
        /\ disk' = r.disk
        /\ cycle' = [ran |-> TRUE, open_at_start |-> position_open,
                     signal_at_start |-> last_signal,
                     macd |-> macd, macd_signal_line |-> macd_signal_line,
                     current_price |-> current_price,
                     buy |-> Seen(r.buy), sell |-> Seen(r.sell),
                     close_path |-> r.close_path,
                     ratcheted |-> r.ratcheted, open_at_risk |-> r.open_at_risk,
                     tp_seen |-> r.tp_seen,
                     sl_seen |-> r.sl_seen, ts_seen |-> r.ts_seen,
                     raised |-> r.raised, steps |-> r.steps,
                     entry_price |-> IF e.buy.ret = "result"
                                     THEN e.state.entry_price ELSE 0]
        /\ pc' = IF r.raised THEN failPc ELSE okPc
        /\ UNCHANGED <<placed, sync_call>>

\* run(), lines 78-91: the analysis of the last closed candle at startup
\* (ANALYZE_PREVIOUS_CANDLE is True); an exception ends run() (line 121).
StartupAnalysis ==
    /\ pc = "synced"
    /\ Cycle("loop", "stopped")

\* run(), lines 93-119: one iteration of the polling loop.  An exception is
\* logged and the loop goes on (line 118).  Line 116 calls save_state without
\* awaiting it: the coroutine never runs and the file is not written.
LoopIteration ==
    /\ pc = "loop"
    /\ Cycle("loop", "loop")

\* The process is stopped and started again: load_state and __init__
Restart ==
    /\ pc # "constructed"
    /\ state' = load_state(disk)
    /\ last_signal' = load_state(disk).last_signal
    /\ position_open' = load_state(disk).position_open
    /\ pc' = "constructed"
    /\ cycle' = NoCycle
    /\ sync_call' = NoSync
    /\ UNCHANGED <<disk, placed>>

Next == SyncPosition \/ StartupAnalysis \/ LoopIteration \/ Restart

Spec == Init /\ [][Next]_vars

-----------------------------------------------------------------------------
(* place_market_order alone, over all the responses *)

AllBuyEnvs == BuyEnvsOver(PrecisionResponses, UsdtBalanceResponses, TickerResponses)
AllSellEnvs == SellEnvsOver(PrecisionResponses, BaseBalanceResponses)

OrdersInit ==
    /\ disk = DefaultState
    /\ state = DefaultState
    /\ last_signal = None
    /\ position_open = FALSE
    /\ pc = "constructed"
    /\ cycle = NoCycle
    /\ placed = NoPlaced
    /\ sync_call = NoSync

PlaceBuy ==
    /\ \E env \in AllBuyEnvs :
         placed' = [side |-> "Buy", env |-> env, outcome |-> place_market_order("Buy", env)]
    /\ UNCHANGED <<pc, state, last_signal, position_open, disk, cycle, sync_call>>

PlaceSell ==
    /\ \E env \in AllSellEnvs :
         placed' = [side |-> "Sell", env |-> env, outcome |-> place_market_order("Sell", env)]
    /\ UNCHANGED <<pc, state, last_signal, position_open, disk, cycle, sync_call>>

OrdersNext == PlaceBuy \/ PlaceSell

SpecOrders == OrdersInit /\ [][OrdersNext]_vars

-----------------------------------------------------------------------------
(* sync_position alone, over all the responses *)

\* A state file as a confirmed Buy leaves it (process_macd lines 135-146)
OpenFile(entry_price, quantity, ls) ==
    [position_open |-> TRUE, side |-> "Buy", quantity |-> quantity,
     entry_price |-> entry_price, tp_price |-> tp_level(entry_price),
     sl_price |-> sl_level(entry_price), ts_price |-> sl_level(entry_price),
     last_signal |-> ls]

\* The state files a start of the bot may find: none, a flat one, and the
\* ones a confirmed Buy of an earlier run saved
SyncFiles ==
    { DefaultState,
      [DefaultState EXCEPT !.last_signal = SIGNAL_WAIT_UPWARD_CROSS],
      OpenFile(Dec(96), 0, SIGNAL_WAIT_UPWARD_CROSS),
      OpenFile(Dec(95), 1000, SIGNAL_WAIT_UPWARD_CROSS) }

\* The instrument payloads as sync_position reads them (minOrderQty only)
SyncPrecisionResponses == {[p EXCEPT !.minOrderAmt = 0] : p \in PrecisionResponses}

SyncInit ==
    /\ disk \in SyncFiles
    /\ state = load_state(disk)
    /\ last_signal = load_state(disk).last_signal
    /\ position_open = load_state(disk).position_open
    /\ pc = "constructed"
    /\ cycle = NoCycle
    /\ placed = NoPlaced
    /\ sync_call = NoSync

\* run(), line 70, with the responses it met recorded
SyncAlone ==
    /\ pc = "constructed"
    /\ \E balResp \in BaseBalanceResponses, precResp \in SyncPrecisionResponses :
         LET r == sync_position(state, balResp, precResp) IN
         /\ state' = r.state
         /\ position_open' = r.position_open
         /\ sync_call' = [ran |-> TRUE, state_before |-> state,
                          balance |-> balResp, prec |-> precResp]
    /\ pc' = "synced"
    /\ UNCHANGED <<last_signal, disk, cycle, placed>>

SyncNext == SyncAlone \/ Restart

SpecSync == SyncInit /\ [][SyncNext]_vars

-----------------------------------------------------------------------------
(* Claims *)

\* A cycle of process_macd has run and the variables are as it left them
CycleRan == cycle.ran
\* market_order("Buy") was called in the last cycle
BuyCalled == cycle.buy.ret # "NotCalled"
\* market_order("Sell") was called in the last cycle
SellCalled == cycle.sell.ret # "NotCalled"
\* startup sync has run
Synced == pc \in {"synced", "loop", "stopped"}
\* the position state is the flat default
IsFlat ==
    /\ ~position_open /\ ~state.position_open
    /\ state.quantity = 0 /\ state.entry_price = 0
    /\ state.tp_price = 0 /\ state.sl_price = 0 /\ state.ts_price = 0

\* C1: a Buy order is attempted in a cycle only if the position was flat at
\* the start of that cycle.
C1_BuyOnlyWhenFlat == (CycleRan /\ BuyCalled) => ~cycle.open_at_start

\* C2: after startup sync, an open position has quantity > 0 and
\* entryPrice > 0.
C2_OpenHasQuantityAndEntry ==
    (Synced /\ position_open) => (state.quantity > 0 /\ state.entry_price > 0)

\* C3: while a position is open, stopLossPrice < entryPrice < takeProfitPrice,
\* and takeProfitPrice and stopLossPrice do not change while it stays open.
C3_LevelsOrderedAndFixed ==
    /\ [](Synced /\ position_open =>
            (state.sl_price < state.entry_price /\ state.entry_price < state.tp_price))
    /\ [][(position_open /\ position_open') =>
            (state'.tp_price = state.tp_price /\ state'.sl_price = state.sl_price)]_vars

\* C4: in a cycle with a position open, MACD < Signal and no take-profit,
\* stop-loss or trailing-stop close, a Sell is issued, the position becomes
\* flat and lastSignal becomes WaitingForUpwardCross; with MACD = Signal there
\* is no signal-driven close.
C4_SignalDrivenClose ==
    (CycleRan /\ cycle.open_at_risk /\ ~cycle.raised /\ cycle.close_path = "none") =>
        /\ (cycle.macd < cycle.macd_signal_line) =>
              (SellCalled /\ ~position_open /\ last_signal = SIGNAL_WAIT_UPWARD_CROSS)
        /\ (cycle.macd = cycle.macd_signal_line) => (~SellCalled /\ position_open)

\* C5: when a take-profit, stop-loss or trailing-stop condition fires in a
\* cycle, the position state is the flat default at the end of the cycle,
\* whatever the Sell order came to.
C5_CloseAlwaysResets == (CycleRan /\ cycle.close_path # "none") => IsFlat

\* The step is a call of process_macd (StartupAnalysis or LoopIteration)
CycleStep == pc \in {"synced", "loop"} /\ cycle'.ran

\* C6: when a Buy is attempted and place_market_order returns None, the cycle
\* leaves positionOpen, the quantity, the prices and lastSignal unchanged and
\* persists nothing.
C6_NoOptimisticOpen ==
    [][(CycleStep /\ cycle'.buy.ret = "None" /\ cycle'.buy.exc = "none") =>
          /\ state' = state
          /\ position_open' = position_open
          /\ last_signal' = last_signal
          /\ disk' = disk]_vars

\* C7: when the precision lookup fails in a cycle, on the Buy path or on the
\* Sell path, no order is submitted in that cycle and the position state is
\* not mutated.
C7_PrecisionFailureAborts ==
    [][(CycleStep /\ (cycle'.buy.precision_failed \/ cycle'.sell.precision_failed)) =>
          /\ ~cycle'.buy.submitted /\ ~cycle'.sell.submitted
          /\ state' = state
          /\ position_open' = position_open
          /\ last_signal' = last_signal]_vars

\* C8: a Buy whose notional, min(desired, balance) in quote currency, is below
\* minOrderAmount is rejected: no order is submitted.
C8_BuyBelowMinimumRejected ==
    (placed.side = "Buy" /\ get_precision(placed.env.prec).exc = "none"
        /\ placed.env.usdt.kind = "ok" /\ placed.env.ticker.kind = "ok"
        /\ Min(IF USE_TOTAL_BALANCE THEN placed.env.usdt.walletBalance ELSE Dec(DEPOSIT),
               placed.env.usdt.walletBalance) < placed.env.prec.minOrderAmt)
    => ~placed.outcome.submitted

\* C9: a cycle issues at most one Sell, exactly when a close path is taken,
\* and the path taken is the first that holds of take-profit (price >= TP),
\* stop-loss (price <= SL), trailing stop (price <= TS); a cycle that ratchets
\* the trailing stop does not close on it.
C9_ExitPriority ==
    CycleRan =>
        /\ cycle.close_path =
              (IF ~cycle.open_at_risk \/ cycle.buy.exc # "none" THEN "none"
               ELSE IF cycle.current_price >= cycle.tp_seen THEN "tp"
               ELSE IF cycle.current_price <= cycle.sl_seen THEN "sl"
               ELSE IF cycle.current_price <= cycle.ts_seen THEN "ts"
               ELSE "none")
        /\ SellCalled <=> (cycle.close_path # "none")
        /\ cycle.ratcheted => (cycle.close_path = "none" /\ ~SellCalled)

\* C9 witness: stop-loss and trailing stop both hold and the stop-loss path
\* is the one taken, with its Sell submitted.
C9_Witness ==
    /\ CycleRan /\ cycle.close_path = "sl" /\ cycle.sell.submitted
    /\ cycle.current_price < cycle.tp_seen
    /\ cycle.current_price <= cycle.ts_seen

\* C10: over every cycle that starts and ends with the position open the
\* trailing stop does not decrease; when price > trailing stop and neither
\* take-profit nor stop-loss fires, the new trailing stop is
\* max(old, price * (1 - TRAILING_STOP_PERCENTAGE/100)) and it is persisted.
C10_TrailingStopMonotone ==
    /\ [][(CycleStep /\ position_open /\ position_open') =>
             state'.ts_price >= state.ts_price]_vars
    /\ []((CycleRan /\ cycle.open_at_risk /\ cycle.buy.exc = "none"
             /\ cycle.current_price < cycle.tp_seen
             /\ cycle.current_price > cycle.sl_seen
             /\ cycle.current_price > cycle.ts_seen) =>
            /\ cycle.ratcheted
            /\ state.ts_price =
                  Max(cycle.ts_seen,
                      (cycle.current_price * (100 - TRAILING_STOP_PERCENTAGE)) \div 100)
            /\ disk.ts_price = state.ts_price
            /\ disk = state)

\* C11: no cycle closes a position (places a Sell and resets the state) on a
\* comparison of the price with a risk level that is 0, as the levels of a
\* position adopted by startup sync are when no entry price was persisted.
C11_ZeroLevelsGuarded ==
    (CycleRan /\ SellCalled) =>
        /\ (cycle.close_path = "tp") => cycle.tp_seen # 0
        /\ (cycle.close_path = "sl") => cycle.sl_seen # 0
        /\ (cycle.close_path = "ts") => cycle.ts_seen # 0

\* C12: after sync_position, if the base-asset balance is >= minOrderQty the
\* position is open with quantity = balance and entryPrice = the entry price
\* persisted before; if the balance is smaller, or the balance or precision
\* query failed, the position state is the flat default.
C12_SyncPostcondition ==
    sync_call.ran =>
        IF /\ sync_call.balance.kind = "ok" /\ sync_call.prec.kind = "ok"
           /\ sync_call.balance.walletBalance >= sync_call.prec.minOrderQty
        THEN /\ position_open /\ state.position_open
             /\ state.quantity = sync_call.balance.walletBalance
             /\ state.entry_price = sync_call.state_before.entry_price
        ELSE IsFlat

\* C12 witness: a balance equal to minOrderQty was adopted over a persisted
\* entry price.
C12_Witness ==
    /\ sync_call.ran /\ position_open
    /\ sync_call.balance.walletBalance = sync_call.prec.minOrderQty
    /\ sync_call.state_before.entry_price > 0
    /\ state.entry_price = sync_call.state_before.entry_price

\* C13: a cycle that starts with no prior signal (last_signal absent from the
\* loaded state) ends with lastSignal = WaitingForDownwardCross if
\* MACD > Signal and WaitingForUpwardCross if MACD <= Signal, and places no
\* order.
C13_FirstObservationClassified ==
    (CycleRan /\ cycle.signal_at_start = None /\ ~cycle.raised) =>
        /\ last_signal = (IF cycle.macd > cycle.macd_signal_line
                          THEN SIGNAL_WAIT_DOWNWARD_CROSS
                          ELSE SIGNAL_WAIT_UPWARD_CROSS)
        /\ ~cycle.buy.submitted /\ ~cycle.sell.submitted

\* The step is a restart of the process: load_state, then __init__
RestartStep == pc # "constructed" /\ pc' = "constructed"

\* C14: after a cycle that changed lastSignal and persisted the state, a
\* restart (load_state, then constructing the strategy) yields the lastSignal
\* that was in memory before the restart.
C14_LastSignalRoundTrip ==
    [][(RestartStep /\ CycleRan /\ last_signal # cycle.signal_at_start
          /\ disk = save_state(state)) =>
            last_signal' = last_signal]_vars

\* The state file holds the flat default of the position fields
DiskIsFlat ==
    /\ ~disk.position_open
    /\ disk.quantity = 0 /\ disk.entry_price = 0
    /\ disk.tp_price = 0 /\ disk.sl_price = 0 /\ disk.ts_price = 0

\* C15: after a cycle in which the position was closed (take-profit,
\* stop-loss or trailing-stop exit, state reset), the state file holds the
\* flat default, so a restart right after the close loads
\* position_open = false.
C15_FlatPersistedAfterClose ==
    (CycleRan /\ cycle.close_path # "none" /\ ~cycle.raised) =>
        (DiskIsFlat /\ ~load_state(disk).position_open)

\* C16: in a cycle that starts with a position open, no signal-driven order
\* is placed before the risk checks (take-profit, stop-loss, trailing stop)
\* against the latest close have been evaluated.
C16_RiskBeforeSignal ==
    (CycleRan /\ cycle.open_at_start) =>
        \A i \in DOMAIN cycle.steps :
            (cycle.steps[i] = "Buy" /\ cycle.buy.submitted) =>
                \E j \in DOMAIN cycle.steps : j < i /\ cycle.steps[j] = "risk"

\* C17: no failure raised while a cycle is processed, the startup analysis
\* of the previous closed candle included, stops the bot: run() never ends.
C17_NoFailureStopsBot == pc # "stopped"

\* C18: from a flat state with lastSignal = WaitingForUpwardCross, a cycle
\* with MACD > Signal whose Buy is confirmed ends with the position open,
\* lastSignal = PositionOpen, takeProfitPrice = entry * (1 + TP/100),
\* stopLossPrice = entry * (1 - SL/100), trailingStopPrice = stopLossPrice,
\* and this state in the state file.
C18_FlatToOpen ==
    [][(CycleStep /\ IsFlat /\ last_signal = SIGNAL_WAIT_UPWARD_CROSS
          /\ cycle'.macd > cycle'.macd_signal_line /\ cycle'.buy.ret = "result") =>
            /\ position_open' /\ state'.position_open
            /\ last_signal' = SIGNAL_POSITION_OPEN
            /\ state'.entry_price > 0
            /\ state'.tp_price = (state'.entry_price * (100 + TP_PERCENTAGE)) \div 100
            /\ state'.sl_price = (state'.entry_price * (100 - SL_PERCENTAGE)) \div 100
            /\ state'.ts_price = state'.sl_price
            /\ disk' = save_state(state')]_vars

\* C19: every Sell order submitted to the exchange has a quantity less than
\* or equal to the base-asset balance queried in that order attempt.
C19_SellWithinBalance ==
    (placed.side = "Sell" /\ placed.outcome.submitted) =>
        /\ placed.env.base.kind = "ok"
        /\ placed.outcome.qty <= placed.env.base.walletBalance

\* C19 witness: a Sell was submitted whose quantity the truncation made
\* smaller than the balance.
C19_Witness ==
    /\ placed.side = "Sell" /\ placed.outcome.submitted
    /\ placed.outcome.qty > 0
    /\ placed.outcome.qty < placed.env.base.walletBalance

\* C20: every Sell order submitted to the exchange has a quantity, after
\* truncation, >= minOrderQty and > 0; a Sell whose truncated quantity is
\* below minOrderQty is rejected without an order being placed.
C20_SellAtLeastMinimum ==
    (placed.side = "Sell" /\ placed.outcome.submitted) =>
        /\ placed.outcome.qty > 0
        /\ placed.outcome.qty >= placed.env.prec.minOrderQty

\* The value of a decimal digit character
DigitValue(c) ==
    CASE c = "0" -> 0 [] c = "1" -> 1 [] c = "2" -> 2 [] c = "3" -> 3 [] c = "4" -> 4
      [] c = "5" -> 5 [] c = "6" -> 6 [] c = "7" -> 7 [] c = "8" -> 8 [] c = "9" -> 9

\* The number the digits s[1..n] spell
RECURSIVE DigitsValue(_, _)
DigitsValue(s, n) == IF n = 0 THEN 0 ELSE 10 * DigitsValue(s, n - 1) + DigitValue(s[n])

\* The step size a basePrecision string reports, in thousandths ("1" is 1000,
\* "0.005" is 5)
ReportedStep(s) ==
    LET dot == LastDot(s, Len(s)) IN
    IF dot = 0 THEN 1000 * DigitsValue(s, Len(s))
    ELSE 1000 * DigitsValue(SubSeq(s, 1, dot - 1), dot - 1)
         + (DigitsValue(SubSeq(s, dot + 1, Len(s)), Len(s) - dot) * 1000)
             \div Pow10(Len(s) - dot)

\* C21: the quantity sent in an order is <= the quantity before rounding and
\* is an integer multiple of the step size the exchange reports as
\* basePrecision, whether written with a decimal point or not and whether a
\* power of ten or not.
C21_TruncatedToReportedStep ==
    placed.outcome.submitted =>
        /\ placed.outcome.qty * placed.outcome.den <= placed.outcome.num * 1000
        /\ placed.outcome.qty % ReportedStep(placed.env.prec.basePrecision) = 0

\* C22: once lastSignal = WaitingForDownwardCross, no step (a cycle with any
\* MACD, Signal and price, startup sync, or a restart from the state file)
\* changes lastSignal, and no cycle attempts a Buy.
C22_WaitDownwardAbsorbing ==
    [][(last_signal = SIGNAL_WAIT_DOWNWARD_CROSS) =>
          /\ last_signal' = SIGNAL_WAIT_DOWNWARD_CROSS
          /\ CycleStep => cycle'.buy.ret = "NotCalled"]_vars

\* C22 witness: a cycle ran in WaitingForDownwardCross with MACD > Signal and
\* a flat position, no Buy was attempted and lastSignal is unchanged.
C22_Witness ==
    /\ CycleRan /\ cycle.signal_at_start = SIGNAL_WAIT_DOWNWARD_CROSS
    /\ cycle.macd > cycle.macd_signal_line /\ ~cycle.open_at_start
    /\ ~BuyCalled /\ last_signal = SIGNAL_WAIT_DOWNWARD_CROSS

\* C23: within one process run, once lastSignal = PositionOpen (a Buy has
\* been confirmed), lastSignal never changes again and no later cycle
\* attempts a Buy, also after the position was closed by take-profit,
\* stop-loss or trailing stop.
C23_NoReentryAfterOpen ==
    [][(last_signal = SIGNAL_POSITION_OPEN /\ ~RestartStep) =>
          /\ last_signal' = SIGNAL_POSITION_OPEN
          /\ CycleStep => cycle'.buy.ret = "NotCalled"]_vars

\* C23 witness: lastSignal was set to PositionOpen by a Buy of this run (the
\* file holds WaitingForUpwardCross), the position has been closed since, and
\* a cycle with MACD > Signal attempted no Buy.
C23_Witness ==
    /\ CycleRan /\ cycle.signal_at_start = SIGNAL_POSITION_OPEN
    /\ disk.last_signal = SIGNAL_WAIT_UPWARD_CROSS
    /\ ~cycle.open_at_start /\ cycle.macd > cycle.macd_signal_line
    /\ ~BuyCalled /\ last_signal = SIGNAL_POSITION_OPEN

\* C24: in every reachable state the flag position_open of the strategy
\* equals state["position_open"], and once startup sync has run, whenever it
\* is false the quantity, entry_price, tp_price, sl_price and ts_price of the
\* state are all 0.
C24_FlagMatchesState ==
    /\ position_open = state.position_open
    /\ (Synced /\ ~position_open) =>
          /\ state.quantity = 0 /\ state.entry_price = 0
          /\ state.tp_price = 0 /\ state.sl_price = 0 /\ state.ts_price = 0

\* C24 witness: a cycle closed a position that had levels set, and the flag
\* and the state are flat.
C24_Witness ==
    /\ CycleRan /\ cycle.close_path # "none" /\ cycle.tp_seen > 0
    /\ ~position_open /\ ~state.position_open
    /\ state.tp_price = 0 /\ state.ts_price = 0

\* C25: with the percentages strictly positive and the entry price taken as
\* the cycle's latest close, a position opened by a confirmed Buy is still
\* open at the end of that cycle: no Sell is placed in it and the only risk
\* action is a trailing-stop ratchet.
C25_OpenSurvivesOpeningCycle ==
    (CycleRan /\ cycle.buy.ret = "result"
        /\ cycle.entry_price = cycle.current_price
        /\ TP_PERCENTAGE > 0 /\ SL_PERCENTAGE > 0 /\ TRAILING_STOP_PERCENTAGE > 0) =>
        /\ position_open /\ state.position_open
        /\ ~SellCalled /\ cycle.close_path = "none"
        /\ cycle.steps = <<"should_buy", "Buy", "risk">>
        /\ state.entry_price = cycle.current_price

\* C25 witness: a Buy from a flat state was confirmed with no entry price in
\* its result, the cycle ratcheted and the position is open.
C25_Witness ==
    /\ CycleRan /\ cycle.buy.ret = "result" /\ ~cycle.open_at_start
    /\ cycle.entry_price = cycle.current_price
    /\ cycle.ratcheted /\ position_open /\ ~SellCalled

====
